---------------------------- MODULE Spec2Model ----------------------------
(***************************************************************************)
(* SceneManager (CS-330 7-1 final project, with the 3-2 assignment's       *)
(* SetTransformations beside it): the texture registry, the material list, *)
(* the OpenGL texture names and texture units the class drives, and the    *)
(* uniform writes it sends to the shader manager.                          *)
(*                                                                         *)
(* Lengths, colours and material values are fixed-point integers in        *)
(* hundredths (1.0 is 100).  Rotations are whole multiples of 90 degrees,   *)
(* for which sine and cosine are integers.                                 *)
(***************************************************************************)
EXTENDS Integers, Sequences, FiniteSets, TLC

\* m_textureIDs has 16 elements ("There are up to 16 slots").
NumTextureSlots == 16

\* Calls of CreateGLTexture and DestroyGLTextures a client makes besides
\* those of PrepareScene.
MaxClientCalls == 1
\* Rejected (wrong channel count) images while the registry is filled.
MaxRejected == 2

VARIABLES
    m_pShaderManager,   \* "NULL" or "shader"
    m_loadedTextures,   \* int
    m_textureIDs,       \* TEXTURE_INFO[NumTextureSlots]: [ID, tag]
    m_objectMaterials,  \* std::vector<OBJECT_MATERIAL>
    glNames,            \* texture names OpenGL has generated and not deleted
    glActive,           \* the active texture unit (GL_TEXTURE0 + glActive)
    glBound,            \* texture unit -> name bound to GL_TEXTURE_2D (0: none)
    fault,              \* "none", "null_deref" or "out_of_bounds"
    prepared,           \* PrepareScene has run
    clientCalls,        \* client calls of CreateGLTexture and
                        \* DestroyGLTextures so far
    last                \* the last call: arguments, result, state before it

vars == <<m_pShaderManager, m_loadedTextures, m_textureIDs, m_objectMaterials,
          glNames, glActive, glBound, fault, prepared, clientCalls,
          last>>

Slots == 0 .. (NumTextureSlots - 1)

\* A TEXTURE_INFO element nothing has been stored in.
EmptySlot == [ID |-> 0, tag |-> ""]

\* The registry of a new SceneManager.
EmptyRegistry == [i \in Slots |-> EmptySlot]

\* An image file as stbi_load sees it: whether it decodes, and its channels.
Images ==
    {[decodes |-> FALSE, channels |-> 0]}
        \cup {[decodes |-> TRUE, channels |-> c] : c \in 1 .. 4}

\* The tags LoadSceneTextures registers, in call order.
SceneTags == <<"keyboard", "mousepad", "desk", "monitor", "wall">>

\* What the five scene files may hold, in the order LoadSceneTextures reads
\* them: each is the image the scene expects or one that is not registered
\* (unreadable, or with 1 or 2 channels).
RGB == [decodes |-> TRUE, channels |-> 3]
RGBA == [decodes |-> TRUE, channels |-> 4]
Unreadable == [decodes |-> FALSE, channels |-> 0]

SceneFiles ==
    {<<k, m, d, RGB, w>> :
        k \in {RGB, Unreadable},
        m \in {RGBA, [decodes |-> TRUE, channels |-> 2]},
        d \in {RGB, Unreadable},
        w \in {RGBA, [decodes |-> TRUE, channels |-> 1]}}

\* The tags a client passes to CreateGLTexture.
ClientTags == {"keyboard", "lamp"}

\* The tags a client looks up.
QueryTags == {"keyboard", "wall", "missing"}

-----------------------------------------------------------------------------
(* OpenGL *)

\* glGenTextures(1, &id): a name not in use, the lowest one.
GenTexture(names) ==
    CHOOSE n \in 1 .. (Cardinality(names) + 1) :
        n \notin names /\ \A k \in 1 .. (n - 1) : k \in names

-----------------------------------------------------------------------------
(* CreateGLTexture *)

\* The part of the object and of the GL context the texture methods touch.
TextureState ==
    [count |-> m_loadedTextures, ids |-> m_textureIDs, names |-> glNames,
     active |-> glActive, bound |-> glBound, fault |-> fault]

\* A variant that takes every channel count stb_image can return.
ChannelsAcceptedAny(colorChannels) == colorChannels \in 1 .. 4

\* colorChannels == 3, else colorChannels == 4, else "Not implemented".
ChannelsAccepted(colorChannels) == colorChannels = 3 \/ colorChannels = 4

\* A variant that reuses the slot of a tag that is registered already.
RegisterTextureDedup(ids, count, textureID, tag) ==
    IF \E i \in 0 .. (count - 1) : ids[i].tag = tag
    THEN LET i == CHOOSE j \in 0 .. (count - 1) : ids[j].tag = tag
         IN  [ids |-> [ids EXCEPT ![i] = [ID |-> textureID, tag |-> tag]],
              count |-> count, index |-> i]
    ELSE [ids |-> [ids EXCEPT ![count] = [ID |-> textureID, tag |-> tag]],
          count |-> count + 1, index |-> count]

\* m_textureIDs[m_loadedTextures] = {textureID, tag}; m_loadedTextures++.
\* The caller has checked nothing: count may be NumTextureSlots.
RegisterTexture(ids, count, textureID, tag) ==
    [ids |-> [ids EXCEPT ![count] = [ID |-> textureID, tag |-> tag]],
     count |-> count + 1, index |-> count]

\* One call CreateGLTexture(filename, tag) on state st, the file holding img:
\* the state after it, its return value and the index it wrote (-1: none).
\* A write at index NumTextureSlots is past the end of the array: the
\* behaviour from there on is undefined, and the model records the fault.
\* On the rejected path the generated name stays bound on the active unit
\* and the decoded image is not freed (return false precedes
\* stbi_image_free).
CreateGLTextureOn(st, img, tag) ==
    IF st.fault # "none" THEN [st |-> st, ret |-> FALSE, wrote |-> -1]
    ELSE IF ~img.decodes THEN [st |-> st, ret |-> FALSE, wrote |-> -1]
    ELSE
      LET textureID == GenTexture(st.names)
          generated == [st EXCEPT !.names = @ \cup {textureID},
                                  !.bound[st.active] = textureID]
      IN  IF ~ChannelsAccepted(img.channels)
          THEN [st |-> generated, ret |-> FALSE, wrote |-> -1]
          ELSE
            LET unbound == [generated EXCEPT !.bound[st.active] = 0]
                reg == RegisterTexture(st.ids, st.count, textureID, tag)
            IN  IF reg.index \in Slots
                THEN [st |-> [unbound EXCEPT !.ids = reg.ids,
                                             !.count = reg.count],
                      ret |-> TRUE, wrote |-> reg.index]
                ELSE [st |-> [unbound EXCEPT !.count = reg.count,
                                             !.fault = "out_of_bounds"],
                      ret |-> TRUE, wrote |-> reg.index]


-----------------------------------------------------------------------------
(* BindGLTextures, DestroyGLTextures *)

\* A variant that runs the loop once more (i <= count).
ForContinuesInclusive(i, count) == i <= count

\* for (int i = 0; i < m_loadedTextures; i++)
ForContinues(i, count) == i < count

\* A variant that binds the next slot's texture on unit i.
BindUnitShifted(st, i) ==
    [st EXCEPT !.active = i, !.bound[i] = st.ids[(i + 1) % NumTextureSlots].ID]

\* glActiveTexture(GL_TEXTURE0 + i); glBindTexture(GL_TEXTURE_2D, ids[i].ID).
BindUnit(st, i) ==
    [st EXCEPT !.active = i, !.bound[i] = st.ids[i].ID]

RECURSIVE BindLoop(_, _, _)
BindLoop(st, i, reads) ==
    IF ForContinues(i, st.count)
    THEN BindLoop(BindUnit(st, i), i + 1, Append(reads, i))
    ELSE [st |-> st, reads |-> reads]

\* BindGLTextures() on state st: the state after it and the indices it read.
BindGLTexturesOn(st) == BindLoop(st, 0, <<>>)

\* glGenTextures(1, &m_textureIDs[i].ID): a new name is generated and
\* stored over the registered one; no name is deleted.
RegenerateSlot(st, i) ==
    LET textureID == GenTexture(st.names)
    IN  [st EXCEPT !.names = @ \cup {textureID}, !.ids[i].ID = textureID]

RECURSIVE DestroyLoop(_, _, _)
DestroyLoop(st, i, reads) ==
    IF ForContinues(i, st.count)
    THEN DestroyLoop(RegenerateSlot(st, i), i + 1, Append(reads, i))
    ELSE [st |-> st, reads |-> reads]

\* DestroyGLTextures() on state st.
DestroyGLTexturesOn(st) == DestroyLoop(st, 0, <<>>)

-----------------------------------------------------------------------------
(* FindTextureID, FindTextureSlot, FindMaterial *)

\* while ((index < count) && (bFound == false))
ScanContinues(index, count, bFound) == index < count /\ ~bFound

\* The texture scans: r holds the result, bFound and the indices read.
RECURSIVE FindTextureIDLoop(_, _, _, _, _)
FindTextureIDLoop(ids, count, tag, index, r) ==
    IF ScanContinues(index, count, r.bFound)
    THEN IF ids[index].tag = tag
         THEN FindTextureIDLoop(ids, count, tag, index,
                  [result |-> ids[index].ID, bFound |-> TRUE,
                   reads |-> Append(r.reads, index)])
         ELSE FindTextureIDLoop(ids, count, tag, index + 1,
                  [r EXCEPT !.reads = Append(@, index)])
    ELSE r

\* A variant that scans on and returns the last matching entry's ID.
FindTextureIDLast(ids, count, tag) ==
    LET hits == {i \in 0 .. (count - 1) : ids[i].tag = tag}
    IN  IF hits = {}
        THEN [result |-> -1, bFound |-> FALSE,
              reads |-> [i \in 1 .. count |-> i - 1]]
        ELSE [result |-> ids[CHOOSE i \in hits : \A j \in hits : j <= i].ID,
              bFound |-> TRUE, reads |-> [i \in 1 .. count |-> i - 1]]

\* FindTextureID(tag): textureID starts at -1.
FindTextureID(ids, count, tag) ==
    FindTextureIDLoop(ids, count, tag, 0,
                      [result |-> -1, bFound |-> FALSE, reads |-> <<>>])

RECURSIVE FindTextureSlotLoop(_, _, _, _, _)
FindTextureSlotLoop(ids, count, tag, index, r) ==
    IF ScanContinues(index, count, r.bFound)
    THEN IF ids[index].tag = tag
         THEN FindTextureSlotLoop(ids, count, tag, index,
                  [result |-> index, bFound |-> TRUE,
                   reads |-> Append(r.reads, index)])
         ELSE FindTextureSlotLoop(ids, count, tag, index + 1,
                  [r EXCEPT !.reads = Append(@, index)])
    ELSE r

\* FindTextureSlot(tag): textureSlot starts at -1.
FindTextureSlot(ids, count, tag) ==
    FindTextureSlotLoop(ids, count, tag, 0,
                        [result |-> -1, bFound |-> FALSE, reads |-> <<>>])

\* The five fields FindMaterial copies; the tag is not copied.
CopyMaterial(material, from) ==
    [material EXCEPT !.ambientColor = from.ambientColor,
                     !.ambientStrength = from.ambientStrength,
                     !.diffuseColor = from.diffuseColor,
                     !.specularColor = from.specularColor,
                     !.shininess = from.shininess]

\* m_objectMaterials[index] for the vector's 0-based index.
RECURSIVE FindMaterialLoop(_, _, _, _)
FindMaterialLoop(materials, tag, index, r) ==
    IF ScanContinues(index, Len(materials), r.bFound)
    THEN IF materials[index + 1].tag = tag
         THEN FindMaterialLoop(materials, tag, index,
                  [material |-> CopyMaterial(r.material, materials[index + 1]),
                   bFound |-> TRUE, reads |-> Append(r.reads, index)])
         ELSE FindMaterialLoop(materials, tag, index + 1,
                  [r EXCEPT !.reads = Append(@, index)])
    ELSE r

\* FindMaterial(tag, material): false on an empty list; otherwise the scan,
\* and then return(true) whether or not the scan found the tag.
FindMaterial(materials, tag, material) ==
    IF Len(materials) = 0
    THEN [ret |-> FALSE, material |-> material, bFound |-> FALSE,
          reads |-> <<>>]
    ELSE LET r == FindMaterialLoop(materials, tag, 0,
                      [material |-> material, bFound |-> FALSE,
                       reads |-> <<>>])
         IN  [ret |-> TRUE, material |-> r.material, bFound |-> r.bFound,
              reads |-> r.reads]

-----------------------------------------------------------------------------
(* Materials and the shader manager *)

\* OBJECT_MATERIAL light1, light2 of DefineObjectMaterials.
Light1 ==
    [ambientColor |-> <<20, 20, 20>>, ambientStrength |-> 100,
     diffuseColor |-> <<40, 40, 40>>, specularColor |-> <<20, 20, 20>>,
     shininess |-> 100, tag |-> "light1"]

Light2 ==
    [ambientColor |-> <<10, 10, 10>>, ambientStrength |-> 100,
     diffuseColor |-> <<40, 40, 40>>, specularColor |-> <<80, 80, 80>>,
     shininess |-> 1000, tag |-> "light2"]

\* DefineObjectMaterials(): two push_back calls.
DefineObjectMaterials(materials) == Append(Append(materials, Light1), Light2)

\* What an OBJECT_MATERIAL local holds before anything is stored in it: its
\* glm::vec3 and float members are indeterminate, any of these.
UninitMaterials ==
    {[ambientColor |-> <<g, g, g>>, ambientStrength |-> g,
      diffuseColor |-> <<g, g, g>>, specularColor |-> <<g, g, g>>,
      shininess |-> g, tag |-> ""] : g \in {-7, 99}}

\* The material a client passes to FindMaterial.
ClientMaterial ==
    [ambientColor |-> <<1, 2, 3>>, ambientStrength |-> 4,
     diffuseColor |-> <<5, 6, 7>>, specularColor |-> <<8, 9, 10>>,
     shininess |-> 11, tag |-> "client"]

\* The tags a client looks a material up by.
MaterialTags == {"light1", "light2", "glass"}

\* One call m_pShaderManager->set...Value(name, value).
Uniform(name, value) == [name |-> name, value |-> value]

\* The five uniform writes of SetShaderMaterial.
MaterialUniforms(material) ==
    <<Uniform("material.ambientColor", material.ambientColor),
      Uniform("material.ambientStrength", material.ambientStrength),
      Uniform("material.diffuseColor", material.diffuseColor),
      Uniform("material.specularColor", material.specularColor),
      Uniform("material.shininess", material.shininess)>>

\* SetShaderMaterial(materialTag), the local material starting as uninit:
\* the uniform writes, the indices FindMaterial read, and whether the call
\* dereferenced a NULL m_pShaderManager (it is used unchecked).
SetShaderMaterialOn(shaderManager, materials, materialTag, uninit) ==
    IF Len(materials) > 0
    THEN LET f == FindMaterial(materials, materialTag, uninit)
         IN  IF f.ret
             THEN IF shaderManager = "NULL"
                  THEN [calls |-> <<>>, reads |-> f.reads,
                        fault |-> "null_deref"]
                  ELSE [calls |-> MaterialUniforms(f.material),
                        reads |-> f.reads, fault |-> "none"]
             ELSE [calls |-> <<>>, reads |-> f.reads, fault |-> "none"]
    ELSE [calls |-> <<>>, reads |-> <<>>, fault |-> "none"]

\* SetShaderTexture(textureTag): nothing without a shader manager.
SetShaderTextureOn(shaderManager, ids, count, textureTag) ==
    IF shaderManager # "NULL"
    THEN LET f == FindTextureSlot(ids, count, textureTag)
         IN  [calls |-> <<Uniform("bUseTexture", 1),
                          Uniform("objectTexture", f.result)>>,
              reads |-> f.reads]
    ELSE [calls |-> <<>>, reads |-> <<>>]

\* SetShaderColor(r, g, b, a).
SetShaderColorOn(shaderManager, color) ==
    IF shaderManager # "NULL"
    THEN <<Uniform("bUseTexture", 0), Uniform("objectColor", color)>>
    ELSE <<>>

\* One light source of SetupSceneLights.
LightUniforms(n) ==
    <<Uniform(<<"lightSources", n, "position">>, <<0, 500, 0>>),
      Uniform(<<"lightSources", n, "ambientColor">>, <<10, 10, 10>>),
      Uniform(<<"lightSources", n, "diffuseColor">>, <<20, 20, 20>>),
      Uniform(<<"lightSources", n, "specularColor">>, <<20, 20, 20>>),
      Uniform(<<"lightSources", n, "focalStrength">>, 100),
      Uniform(<<"lightSources", n, "specularIntensity">>, 100)>>

\* SetupSceneLights(): m_pShaderManager is used unchecked.
SetupSceneLightsOn(shaderManager) ==
    IF shaderManager = "NULL"
    THEN [calls |-> <<>>, fault |-> "null_deref"]
    ELSE [calls |-> LightUniforms(0) \o LightUniforms(1)
                        \o <<Uniform("bUseLighting", 1)>>,
          fault |-> "none"]

-----------------------------------------------------------------------------
(* SetTransformations *)

\* A glm::mat4 is its four rows.

\* operator*(mat4, mat4).
MatMul(A, B) ==
    [r \in 1 .. 4 |->
        [c \in 1 .. 4 |->
            A[r][1] * B[1][c] + A[r][2] * B[2][c]
                + A[r][3] * B[3][c] + A[r][4] * B[4][c]]]

\* cos and sin of glm::radians(degrees), degrees a multiple of 90.
Cos(degrees) ==
    CASE degrees % 360 = 0 -> 1
      [] degrees % 360 = 180 -> -1
      [] OTHER -> 0

Sin(degrees) ==
    CASE degrees % 360 = 90 -> 1
      [] degrees % 360 = 270 -> -1
      [] OTHER -> 0

\* glm::scale(v), glm::translate(v), glm::rotate(angle, axis).
ScaleMatrix(v) ==
    <<<<v[1], 0, 0, 0>>, <<0, v[2], 0, 0>>, <<0, 0, v[3], 0>>, <<0, 0, 0, 1>>>>

TranslateMatrix(v) ==
    <<<<1, 0, 0, v[1]>>, <<0, 1, 0, v[2]>>, <<0, 0, 1, v[3]>>, <<0, 0, 0, 1>>>>

RotateX(d) ==
    <<<<1, 0, 0, 0>>, <<0, Cos(d), -Sin(d), 0>>, <<0, Sin(d), Cos(d), 0>>,
      <<0, 0, 0, 1>>>>

RotateY(d) ==
    <<<<Cos(d), 0, Sin(d), 0>>, <<0, 1, 0, 0>>, <<-Sin(d), 0, Cos(d), 0>>,
      <<0, 0, 0, 1>>>>

RotateZ(d) ==
    <<<<Cos(d), -Sin(d), 0, 0>>, <<Sin(d), Cos(d), 0, 0>>, <<0, 0, 1, 0>>,
      <<0, 0, 0, 1>>>>

\* A variant with the factors in the opposite roles: scale * rotations *
\* translation.
ModelViewScaleLast(scaleXYZ, Xdeg, Ydeg, Zdeg, positionXYZ) ==
    MatMul(MatMul(MatMul(MatMul(ScaleMatrix(scaleXYZ), RotateX(Xdeg)),
                         RotateY(Ydeg)), RotateZ(Zdeg)),
           TranslateMatrix(positionXYZ))

\* 7-1: modelView = translation * rotationX * rotationY * rotationZ * scale.
ModelView(scaleXYZ, Xdeg, Ydeg, Zdeg, positionXYZ) ==
    MatMul(MatMul(MatMul(MatMul(TranslateMatrix(positionXYZ), RotateX(Xdeg)),
                         RotateY(Ydeg)), RotateZ(Zdeg)),
           ScaleMatrix(scaleXYZ))

\* 3-2: the same statement in the 3-2 assignment's SceneManager.cpp.
ModelView32(scaleXYZ, Xdeg, Ydeg, Zdeg, positionXYZ) ==
    MatMul(MatMul(MatMul(MatMul(TranslateMatrix(positionXYZ), RotateX(Xdeg)),
                         RotateY(Ydeg)), RotateZ(Zdeg)),
           ScaleMatrix(scaleXYZ))

\* if (NULL != m_pShaderManager) setMat4Value(g_ModelName, modelView).
SendModel(shaderManager, modelView) ==
    IF shaderManager # "NULL" THEN <<Uniform("model", modelView)>> ELSE <<>>

\* The arguments a client passes to SetTransformations.
Scales == {<<1000, 5, 500>>, <<200, 300, 400>>}
Degrees == {0, 90, -90}
Positions == {<<0, 600, -600>>, <<130, 25, -155>>}

\* The colours RenderScene passes to SetShaderColor.
Grey == <<20, 20, 20, 100>>
Black == <<0, 0, 0, 100>>

-----------------------------------------------------------------------------
(* LoadSceneTextures, PrepareScene, RenderScene *)

\* The five CreateGLTexture calls in order; bReturn is overwritten and
\* never read.  rets keeps each call's return value for the record.
RECURSIVE LoadLoop(_, _, _, _)
LoadLoop(st, imgs, i, rets) ==
    IF i > Len(SceneTags) THEN [st |-> st, rets |-> rets]
    ELSE LET c == CreateGLTextureOn(st, imgs[i], SceneTags[i])
         IN  LoadLoop(c.st, imgs, i + 1, Append(rets, c.ret))

\* LoadSceneTextures(): the five loads, then BindGLTextures().
LoadSceneTexturesOn(st, imgs) ==
    LET l == LoadLoop(st, imgs, 1, <<>>)
        b == BindGLTexturesOn(l.st)
    IN  IF l.st.fault # "none"
        THEN [st |-> l.st, rets |-> l.rets, reads |-> <<>>]
        ELSE [st |-> b.st, rets |-> l.rets, reads |-> b.reads]

\* The calls of RenderScene that read the registry or the material list or
\* set the colour, in source order.  Its 27 SetTransformations calls and its
\* draw calls depend on literals alone (the angles include 40, 45 and 100
\* degrees) and are left out.
Tex(tag) == [op |-> "texture", tag |-> tag, color |-> <<>>]
Mat(tag) == [op |-> "material", tag |-> tag, color |-> <<>>]
Col(color) == [op |-> "color", tag |-> "", color |-> color]

RenderSceneSteps ==
    <<Tex("desk"), Mat("light1"), Tex("wall"), Mat("light2"),
      Col(Grey), Col(Grey), Col(Grey), Col(Grey), Col(Grey),
      Tex("monitor"), Mat("light2"),
      Col(Black), Col(Black), Col(Black), Col(Black), Col(Black),
      Tex("keyboard"),
      Col(Grey), Col(Grey), Col(Grey), Col(Grey),
      Col(Grey), Col(Grey), Col(Grey), Col(Grey),
      Col(Grey), Col(Black), Col(Black), Col(Black), Col(Black)>>

RECURSIVE RenderLoop(_, _, _, _, _, _, _)
RenderLoop(shaderManager, ids, count, materials, uninit, i, r) ==
    IF i > Len(RenderSceneSteps) \/ r.fault # "none" THEN r
    ELSE
      LET step == RenderSceneSteps[i]
          next ==
            CASE step.op = "texture" ->
                   LET t == SetShaderTextureOn(shaderManager, ids, count,
                                               step.tag)
                   IN  [r EXCEPT !.calls = @ \o t.calls,
                                 !.reads = @ \o t.reads]
              [] step.op = "material" ->
                   LET m == SetShaderMaterialOn(shaderManager, materials,
                                                step.tag, uninit)
                   IN  [r EXCEPT !.calls = @ \o m.calls,
                                 !.materialReads = @ \o m.reads,
                                 !.fault = m.fault]
              [] OTHER ->
                   [r EXCEPT !.calls =
                        @ \o SetShaderColorOn(shaderManager, step.color)]
      IN  RenderLoop(shaderManager, ids, count, materials, uninit, i + 1, next)

RenderSceneOn(shaderManager, ids, count, materials, uninit) ==
    RenderLoop(shaderManager, ids, count, materials, uninit, 1,
               [calls |-> <<>>, reads |-> <<>>, materialReads |-> <<>>,
                fault |-> "none"])

-----------------------------------------------------------------------------
(* The record of the last call *)

Snapshot ==
    [count |-> m_loadedTextures, ids |-> m_textureIDs,
     materials |-> m_objectMaterials, names |-> glNames, bound |-> glBound,
     prepared |-> prepared]

NoTransform ==
    [scaleXYZ |-> <<0, 0, 0>>, Xdeg |-> 0, Ydeg |-> 0, Zdeg |-> 0,
     positionXYZ |-> <<0, 0, 0>>]

Call(op) ==
    [op |-> op, tag |-> "", img |-> Unreadable, imgs |-> <<>>,
     retBool |-> FALSE, retInt |-> 0, rets |-> <<>>, wrote |-> -1,
     reads |-> <<>>, materialReads |-> <<>>, calls |-> <<>>,
     materialIn |-> ClientMaterial, materialOut |-> ClientMaterial,
     transform |-> NoTransform, pre |-> Snapshot]

-----------------------------------------------------------------------------
(* The state after construction, and one action per method *)

\* SceneManager(pShaderManager): the constructor assigns m_pShaderManager
\* and m_basicMeshes only.  m_loadedTextures and m_textureIDs start as
\* their declarations in SceneManager.h leave them, taken here to be an
\* empty registry; in the GL context nothing is generated or bound.
Init ==
    /\ m_pShaderManager \in {"NULL", "shader"}
    /\ m_loadedTextures = 0
    /\ m_textureIDs = EmptyRegistry
    /\ m_objectMaterials = <<>>
    /\ glNames = {}
    /\ glActive = 0
    /\ glBound = [u \in Slots |-> 0]
    /\ fault = "none"
    /\ prepared = FALSE
    /\ clientCalls = 0
    /\ last = Call("none")

\* The texture methods' part of the next state.
SetTextureState(st) ==
    /\ m_loadedTextures' = st.count
    /\ m_textureIDs' = st.ids
    /\ glNames' = st.names
    /\ glActive' = st.active
    /\ glBound' = st.bound
    /\ fault' = st.fault

Running == fault = "none"

CreateGLTextureCall(img, tag) ==
    LET c == CreateGLTextureOn(TextureState, img, tag)
    IN  /\ SetTextureState(c.st)
        /\ last' = [Call("CreateGLTexture") EXCEPT
                       !.tag = tag, !.img = img, !.retBool = c.ret,
                       !.wrote = c.wrote]
        /\ UNCHANGED <<m_pShaderManager, m_objectMaterials, prepared>>

\* A client's call CreateGLTexture(filename, tag).
CreateGLTexture ==
    /\ Running
    /\ clientCalls < MaxClientCalls
    /\ \E img \in Images, tag \in ClientTags : CreateGLTextureCall(img, tag)
    /\ clientCalls' = clientCalls + 1

BindGLTextures ==
    /\ Running
    /\ LET b == BindGLTexturesOn(TextureState)
       IN  /\ SetTextureState(b.st)
           /\ last' = [Call("BindGLTextures") EXCEPT !.reads = b.reads]
    /\ UNCHANGED <<m_pShaderManager, m_objectMaterials, prepared,
                   clientCalls>>

DestroyGLTextures ==
    /\ Running
    /\ clientCalls < MaxClientCalls
    /\ LET d == DestroyGLTexturesOn(TextureState)
       IN  /\ SetTextureState(d.st)
           /\ last' = [Call("DestroyGLTextures") EXCEPT !.reads = d.reads]
    /\ clientCalls' = clientCalls + 1
    /\ UNCHANGED <<m_pShaderManager, m_objectMaterials, prepared>>

CallFindTextureID ==
    /\ Running
    /\ \E tag \in QueryTags :
         LET f == FindTextureID(m_textureIDs, m_loadedTextures, tag)
         IN  last' = [Call("FindTextureID") EXCEPT
                         !.tag = tag, !.retInt = f.result, !.reads = f.reads]
    /\ UNCHANGED <<m_pShaderManager, m_loadedTextures, m_textureIDs,
                   m_objectMaterials, glNames, glActive, glBound, fault,
                   prepared, clientCalls>>

CallFindTextureSlot ==
    /\ Running
    /\ \E tag \in QueryTags :
         LET f == FindTextureSlot(m_textureIDs, m_loadedTextures, tag)
         IN  last' = [Call("FindTextureSlot") EXCEPT
                         !.tag = tag, !.retInt = f.result, !.reads = f.reads]
    /\ UNCHANGED <<m_pShaderManager, m_loadedTextures, m_textureIDs,
                   m_objectMaterials, glNames, glActive, glBound, fault,
                   prepared, clientCalls>>

CallFindMaterial ==
    /\ Running
    /\ \E tag \in MaterialTags :
         LET f == FindMaterial(m_objectMaterials, tag, ClientMaterial)
         IN  last' = [Call("FindMaterial") EXCEPT
                         !.tag = tag, !.retBool = f.ret,
                         !.materialOut = f.material,
                         !.materialReads = f.reads]
    /\ UNCHANGED <<m_pShaderManager, m_loadedTextures, m_textureIDs,
                   m_objectMaterials, glNames, glActive, glBound, fault,
                   prepared, clientCalls>>

SetShaderTexture ==
    /\ Running
    /\ \E tag \in QueryTags :
         LET t == SetShaderTextureOn(m_pShaderManager, m_textureIDs,
                                     m_loadedTextures, tag)
         IN  last' = [Call("SetShaderTexture") EXCEPT
                         !.tag = tag, !.calls = t.calls, !.reads = t.reads]
    /\ UNCHANGED <<m_pShaderManager, m_loadedTextures, m_textureIDs,
                   m_objectMaterials, glNames, glActive, glBound, fault,
                   prepared, clientCalls>>

SetShaderMaterial ==
    /\ Running
    /\ \E tag \in MaterialTags, uninit \in UninitMaterials :
         LET m == SetShaderMaterialOn(m_pShaderManager, m_objectMaterials,
                                      tag, uninit)
         IN  /\ last' = [Call("SetShaderMaterial") EXCEPT
                            !.tag = tag, !.calls = m.calls,
                            !.materialIn = uninit,
                            !.materialReads = m.reads]
             /\ fault' = m.fault
    /\ UNCHANGED <<m_pShaderManager, m_loadedTextures, m_textureIDs,
                   m_objectMaterials, glNames, glActive, glBound,
                   prepared, clientCalls>>

\* PrepareScene(), run once at startup: LoadSceneTextures,
\* DefineObjectMaterials, SetupSceneLights, then the mesh loads (ShapeMeshes).
PrepareScene ==
    /\ Running
    /\ ~prepared
    /\ \E imgs \in SceneFiles :
         /\ LET l == LoadSceneTexturesOn(TextureState, imgs)
                lights == SetupSceneLightsOn(m_pShaderManager)
            IN  /\ SetTextureState(
                     [l.st EXCEPT !.fault =
                         IF @ # "none" THEN @ ELSE lights.fault])
                /\ last' = [Call("PrepareScene") EXCEPT
                               !.imgs = imgs, !.rets = l.rets,
                               !.reads = l.reads, !.calls = lights.calls]
    /\ m_objectMaterials' = DefineObjectMaterials(m_objectMaterials)
    /\ prepared' = TRUE
    /\ UNCHANGED <<m_pShaderManager, clientCalls>>

RenderScene ==
    /\ Running
    /\ \E uninit \in UninitMaterials :
         LET r == RenderSceneOn(m_pShaderManager, m_textureIDs,
                                m_loadedTextures, m_objectMaterials, uninit)
         IN  /\ last' = [Call("RenderScene") EXCEPT
                            !.calls = r.calls, !.reads = r.reads,
                            !.materialReads = r.materialReads,
                            !.materialIn = uninit]
             /\ fault' = r.fault
    /\ UNCHANGED <<m_pShaderManager, m_loadedTextures, m_textureIDs,
                   m_objectMaterials, glNames, glActive, glBound,
                   prepared, clientCalls>>

\* SetTransformations of the 7-1 project.
SetTransformations ==
    /\ Running
    /\ \E scaleXYZ \in Scales, Xdeg \in Degrees, Ydeg \in Degrees,
          Zdeg \in Degrees, positionXYZ \in Positions :
         last' = [Call("SetTransformations") EXCEPT
                     !.transform = [scaleXYZ |-> scaleXYZ, Xdeg |-> Xdeg,
                                    Ydeg |-> Ydeg, Zdeg |-> Zdeg,
                                    positionXYZ |-> positionXYZ],
                     !.calls = SendModel(m_pShaderManager,
                                   ModelView(scaleXYZ, Xdeg, Ydeg, Zdeg,
                                             positionXYZ))]
    /\ UNCHANGED <<m_pShaderManager, m_loadedTextures, m_textureIDs,
                   m_objectMaterials, glNames, glActive, glBound, fault,
                   prepared, clientCalls>>

\* SetTransformations of the 3-2 assignment.
SetTransformations32 ==
    /\ Running
    /\ \E scaleXYZ \in Scales, Xdeg \in Degrees, Ydeg \in Degrees,
          Zdeg \in Degrees, positionXYZ \in Positions :
         last' = [Call("SetTransformations32") EXCEPT
                     !.transform = [scaleXYZ |-> scaleXYZ, Xdeg |-> Xdeg,
                                    Ydeg |-> Ydeg, Zdeg |-> Zdeg,
                                    positionXYZ |-> positionXYZ],
                     !.calls = SendModel(m_pShaderManager,
                                   ModelView32(scaleXYZ, Xdeg, Ydeg, Zdeg,
                                               positionXYZ))]
    /\ UNCHANGED <<m_pShaderManager, m_loadedTextures, m_textureIDs,
                   m_objectMaterials, glNames, glActive, glBound, fault,
                   prepared, clientCalls>>

SetShaderColor ==
    /\ Running
    /\ \E color \in {Grey, Black} :
         last' = [Call("SetShaderColor") EXCEPT
                     !.calls = SetShaderColorOn(m_pShaderManager, color)]
    /\ UNCHANGED <<m_pShaderManager, m_loadedTextures, m_textureIDs,
                   m_objectMaterials, glNames, glActive, glBound, fault,
                   prepared, clientCalls>>

\* CreateGLTexture called until the registry is full and once more; of the
\* images at most MaxRejected decode with a channel count that is rejected.
CreateGLTextureFill ==
    /\ Running
    /\ \E img \in Images :
         /\ (img.decodes /\ ~(img.channels \in {3, 4}))
                => Cardinality(glNames) - m_loadedTextures < MaxRejected
         /\ CreateGLTextureCall(img, "lamp")
    /\ UNCHANGED clientCalls

Next ==
    \/ PrepareScene
    \/ CreateGLTexture
    \/ BindGLTextures
    \/ DestroyGLTextures
    \/ CallFindTextureID
    \/ CallFindTextureSlot
    \/ CallFindMaterial
    \/ SetShaderTexture
    \/ SetShaderMaterial
    \/ RenderScene

Spec == Init /\ [][Next]_vars

\* The transformation and colour methods alone.
NextTransform ==
    \/ SetTransformations
    \/ SetTransformations32
    \/ SetShaderColor

SpecTransform == Init /\ [][NextTransform]_vars

\* The registry filled by one client.
NextFill == CreateGLTextureFill

SpecFill == Init /\ [][NextFill]_vars

-----------------------------------------------------------------------------
(* Properties *)

\* The registered entries with a tag, and the lowest of a non-empty set.
Hits(ids, count, tag) == {i \in 0 .. (count - 1) : ids[i].tag = tag}
Lowest(S) == CHOOSE i \in S : \A j \in S : i <= j

Accepted(img) == img.decodes /\ img.channels \in {3, 4}

\* C1: CreateGLTexture returns true exactly when the image decodes and has
\* 3 or 4 channels (also for each of the five calls of LoadSceneTextures);
\* when it returns false, m_loadedTextures and the whole of m_textureIDs
\* are as they were before the call.
C1_ReturnsTrueIffAccepted ==
    /\ last.op = "CreateGLTexture" =>
         /\ last.retBool <=> Accepted(last.img)
         /\ ~last.retBool =>
              /\ m_loadedTextures = last.pre.count
              /\ m_textureIDs = last.pre.ids
    /\ last.op = "PrepareScene" =>
         \A i \in DOMAIN last.rets : last.rets[i] <=> Accepted(last.imgs[i])

\* A two-channel image was rejected while textures were registered.
C1_Witness ==
    /\ last.op = "CreateGLTexture"
    /\ last.img.decodes
    /\ last.img.channels = 2
    /\ ~last.retBool
    /\ last.pre.count > 0

\* C10: a successful CreateGLTexture writes a newly generated texture name
\* and the tag at the old m_loadedTextures, adds exactly 1 to
\* m_loadedTextures and leaves every other entry as it was, whether or not
\* the tag is registered already.
C10_AppendsAtNextSlot ==
    (last.op = "CreateGLTexture" /\ last.retBool) =>
        /\ last.wrote = last.pre.count
        /\ m_loadedTextures = last.pre.count + 1
        /\ m_textureIDs[last.pre.count].tag = last.tag
        /\ m_textureIDs[last.pre.count].ID \in glNames \ last.pre.names
        /\ \A i \in Slots \ {last.pre.count} :
             m_textureIDs[i] = last.pre.ids[i]

\* The tag was registered already, and is registered a second time.
C10_Witness ==
    /\ last.op = "CreateGLTexture"
    /\ last.retBool
    /\ Hits(last.pre.ids, last.pre.count, last.tag) # {}
    /\ Cardinality(Hits(m_textureIDs, m_loadedTextures, last.tag)) = 2

\* C5: FindTextureID returns the ID of the lowest registered entry with the
\* tag, returns -1 exactly when there is none, and changes no registry state.
C5_FindTextureIDFirstMatch ==
    last.op = "FindTextureID" =>
        LET hits == Hits(m_textureIDs, m_loadedTextures, last.tag)
        IN  /\ (last.retInt = -1) <=> (hits = {})
            /\ hits # {} => last.retInt = m_textureIDs[Lowest(hits)].ID
            /\ m_loadedTextures = last.pre.count
            /\ m_textureIDs = last.pre.ids
            /\ glNames = last.pre.names

\* Two entries carry the tag, with different IDs, and the first is returned.
C5_Witness ==
    /\ last.op = "FindTextureID"
    /\ \E i, j \in Hits(m_textureIDs, m_loadedTextures, last.tag) :
         /\ i < j
         /\ m_textureIDs[i].ID # m_textureIDs[j].ID
         /\ last.retInt = m_textureIDs[i].ID

\* The scene textures that loaded, as indices of SceneTags.
Loaded == {i \in DOMAIN last.rets : last.rets[i]}

\* C6: FindTextureSlot returns the lowest index carrying the tag, or -1;
\* after LoadSceneTextures (and after any BindGLTextures) every registered
\* index i is the texture unit that holds m_textureIDs[i].ID, so the slot
\* FindTextureSlot returns is the unit its texture was bound on; and the
\* scene textures that loaded occupy consecutive slots in call order from
\* the first free one (slot 0 on a new object), whichever loads failed.
C6_SlotIsBoundUnit ==
    /\ last.op = "FindTextureSlot" =>
         LET hits == Hits(m_textureIDs, m_loadedTextures, last.tag)
         IN  last.retInt = IF hits = {} THEN -1 ELSE Lowest(hits)
    /\ last.op \in {"PrepareScene", "BindGLTextures"} =>
         /\ \A i \in 0 .. (m_loadedTextures - 1) :
              glBound[i] = m_textureIDs[i].ID
         /\ \A tag \in QueryTags :
              LET slot == FindTextureSlot(m_textureIDs, m_loadedTextures,
                                          tag).result
              IN  slot # -1 =>
                    /\ slot \in 0 .. (m_loadedTextures - 1)
                    /\ m_textureIDs[slot].tag = tag
                    /\ glBound[slot] = m_textureIDs[slot].ID
    /\ last.op = "PrepareScene" =>
         /\ m_loadedTextures = last.pre.count + Cardinality(Loaded)
         /\ \A i \in Loaded :
              m_textureIDs[last.pre.count
                  + Cardinality({j \in Loaded : j < i})].tag = SceneTags[i]

\* On a new object the first and the third scene file failed to load, and
\* "wall" is in slot 2, bound on unit 2.
C6_Witness ==
    /\ last.op = "PrepareScene"
    /\ last.pre.count = 0
    /\ Loaded = {2, 4, 5}
    /\ FindTextureSlot(m_textureIDs, m_loadedTextures, "wall").result = 2
    /\ glBound[2] = m_textureIDs[2].ID
    /\ m_textureIDs[2].ID # 0

\* C9: every index the texture scans and loops read is in
\* 0 .. m_loadedTextures - 1, every index FindMaterial reads is in
\* 0 .. size - 1, and each scan makes at most count iterations.
C9_ReadsInBounds ==
    /\ last.op \in {"FindTextureID", "FindTextureSlot", "BindGLTextures",
                    "DestroyGLTextures"} =>
         /\ \A k \in DOMAIN last.reads :
              0 <= last.reads[k] /\ last.reads[k] < m_loadedTextures
         /\ Len(last.reads) <= m_loadedTextures
    /\ last.op = "FindMaterial" =>
         /\ \A k \in DOMAIN last.materialReads :
              /\ 0 <= last.materialReads[k]
              /\ last.materialReads[k] < Len(m_objectMaterials)
         /\ Len(last.materialReads) <= Len(m_objectMaterials)

\* BindGLTextures read every one of at least three registered entries.
C9_Witness ==
    /\ last.op = "BindGLTextures"
    /\ m_loadedTextures >= 3
    /\ Len(last.reads) = m_loadedTextures
    /\ last.reads[m_loadedTextures] = m_loadedTextures - 1

\* The operations that are said to leave the registry and the materials
\* alone.
ReadOnlyOps ==
    {"RenderScene", "BindGLTextures", "DestroyGLTextures", "FindTextureID",
     "FindTextureSlot", "FindMaterial", "SetShaderTexture",
     "SetShaderMaterial"}

\* C2: after PrepareScene, none of RenderScene, BindGLTextures,
\* DestroyGLTextures, FindTextureID, FindTextureSlot, FindMaterial,
\* SetShaderTexture and SetShaderMaterial changes m_loadedTextures, a
\* registered tag or ID, or m_objectMaterials.
C2_RegistryNeverMutated ==
    (last.pre.prepared /\ last.op \in ReadOnlyOps) =>
        /\ m_loadedTextures = last.pre.count
        /\ \A i \in 0 .. (m_loadedTextures - 1) :
             m_textureIDs[i] = last.pre.ids[i]
        /\ m_objectMaterials = last.pre.materials

\* C3: m_loadedTextures never exceeds the 16 slots, and every index
\* CreateGLTexture writes is below 16.
C3_RegistryBounded ==
    /\ m_loadedTextures <= NumTextureSlots
    /\ last.wrote < NumTextureSlots

\* C4: after DestroyGLTextures no texture name that was registered is still
\* allocated, and the call has allocated no new one.
C4_DestroyReleasesTextures ==
    last.op = "DestroyGLTextures" =>
        /\ \A i \in 0 .. (last.pre.count - 1) :
             last.pre.ids[i].ID \notin glNames
        /\ glNames \subseteq last.pre.names

\* The entries of the material list with a tag.
MaterialHits(tag) ==
    {i \in DOMAIN m_objectMaterials : m_objectMaterials[i].tag = tag}

\* C7: FindMaterial returns true exactly when an entry has the tag, and
\* material then holds that entry's five values; otherwise it returns false
\* and material is as passed in.
C7_FindMaterialReportsFound ==
    last.op = "FindMaterial" =>
        /\ last.retBool <=> (MaterialHits(last.tag) # {})
        /\ MaterialHits(last.tag) # {} =>
             \E i \in MaterialHits(last.tag) :
                 last.materialOut =
                     CopyMaterial(last.materialIn, m_objectMaterials[i])
        /\ MaterialHits(last.tag) = {} => last.materialOut = last.materialIn

\* The transformations one at a time, on a point.
ScalePoint(s, v) == <<s[1] * v[1], s[2] * v[2], s[3] * v[3]>>
RotateXPoint(d, v) ==
    <<v[1], Cos(d) * v[2] - Sin(d) * v[3], Sin(d) * v[2] + Cos(d) * v[3]>>
RotateYPoint(d, v) ==
    <<Cos(d) * v[1] + Sin(d) * v[3], v[2], Cos(d) * v[3] - Sin(d) * v[1]>>
RotateZPoint(d, v) ==
    <<Cos(d) * v[1] - Sin(d) * v[2], Sin(d) * v[1] + Cos(d) * v[2], v[3]>>
TranslatePoint(p, v) == <<v[1] + p[1], v[2] + p[2], v[3] + p[3]>>

\* A mat4 applied to the point v (w = 1).
MatPoint(M, v) ==
    <<M[1][1] * v[1] + M[1][2] * v[2] + M[1][3] * v[3] + M[1][4],
      M[2][1] * v[1] + M[2][2] * v[2] + M[2][3] * v[3] + M[2][4],
      M[3][1] * v[1] + M[3][2] * v[2] + M[3][3] * v[3] + M[3][4]>>

\* The origin and the three unit points fix an affine map.
Probes == {<<0, 0, 0>>, <<1, 0, 0>>, <<0, 1, 0>>, <<0, 0, 1>>}

\* C8: in both versions the matrix SetTransformations sends scales a point
\* first, then rotates it about Z, then about Y, then about X, then
\* translates it, for every input; it is sent as "model", and only when
\* m_pShaderManager is not NULL.
C8_ScaleRotateTranslateOrder ==
    last.op \in {"SetTransformations", "SetTransformations32"} =>
        IF m_pShaderManager = "NULL" THEN last.calls = <<>>
        ELSE
          LET t == last.transform
          IN  /\ Len(last.calls) = 1
              /\ last.calls[1].name = "model"
              /\ last.calls[1].value[4] = <<0, 0, 0, 1>>
              /\ \A v \in Probes :
                   MatPoint(last.calls[1].value, v) =
                     TranslatePoint(t.positionXYZ,
                       RotateXPoint(t.Xdeg,
                         RotateYPoint(t.Ydeg,
                           RotateZPoint(t.Zdeg,
                             ScalePoint(t.scaleXYZ, v)))))

\* The 3-2 version sent a matrix whose three rotations and uneven scale make
\* the order matter.
C8_Witness ==
    /\ last.op = "SetTransformations32"
    /\ m_pShaderManager # "NULL"
    /\ last.transform.Xdeg = 90
    /\ last.transform.Ydeg = -90
    /\ last.transform.Zdeg = 90
    /\ last.transform.scaleXYZ = <<200, 300, 400>>
    /\ Len(last.calls) = 1
    /\ MatPoint(last.calls[1].value, <<1, 0, 0>>)
         # MatPoint(last.calls[1].value, <<0, 1, 0>>)

=============================================================================
